---- MODULE Spec2Model ----
(***************************************************************************)
(* Mute-state reconciliation of the hyper-meet-mute extension.             *)
(*                                                                         *)
(* Background service worker (js/background.js, src/unnamed/part_000):     *)
(* the registry activeMeetTabs, globalMuteState, the global badge, the     *)
(* persisted preference chrome.storage.local.muted, the in-flight calls of *)
(* simpleToggleMute and the timers they start.                             *)
(*                                                                         *)
(* Content script (src/ext/js/meetmute.js): the cached flag muted, the     *)
(* mute button and its data-is-muted attribute, the attribute observer and *)
(* the quick-check / final-check timers of handleMessage.                  *)
(***************************************************************************)
EXTENDS Naturals, Sequences, FiniteSets

\* ------------------------------------------------------------------ bounds
NumTabs  == 2   \* tab ids 1..NumTabs
MaxPorts == 2   \* channels opened over a run
MaxCalls == 2   \* user toggle actions (icon clicks and shortcut commands) over a run
MaxCommands == 2  \* messages the content script handles over a run
MaxPollers  == 2  \* poll chains of waitUntilElementExists running at once

Tabs == 1..NumTabs

\* ------------------------------------------------------- program constants
IconClickDelay   == 300    \* verificationDelay, fromIconClick
CommandDelay     == 500    \* verificationDelay, otherwise
WarningDuration  == 3000   \* the "no active Meet tabs" warning
QuickCheckDelay  == 50     \* handleMessage, first setTimeout
FinalCheckDelay  == 200    \* handleMessage, nested setTimeout
ReconnectDelay   == 1000   \* port.onDisconnect, setTimeout(connectToBackgroundScript)
MaxTime          == 5000   \* waitUntilElementExists, MAX_TIME
PollInterval     == 100    \* waitUntilElementExists, timeout += 100 / setTimeout(.., 100)

BadgeDisconnected == [text |-> "",  color |-> "#666666", title |-> "Disconnected"]
BadgeMuted        == [text |-> "M", color |-> "#F44336", title |-> "Meet: Muted"]
BadgeUnmuted      == [text |-> "U", color |-> "#4CAF50", title |-> "Meet: Unmuted"]
BadgeWarning      == [text |-> "!", color |-> "#FFC107", title |-> "No active Meet tabs"]
\* Before the first setGlobalBadge: no badge text, the colour onInstalled
\* sets, and the title of the manifest (not part of the sources).
BadgeInstalled    == [text |-> "",  color |-> "#666666", title |-> "manifest default_title"]

\* The messages a content script sends (port.postMessage or runtime.sendMessage).
Reports ==
  { [message |-> m, finalState |-> f] : m \in {"muted", "unmuted"}, f \in BOOLEAN }
  \cup { [message |-> "disconnected", finalState |-> FALSE],
         [message |-> "mute_button_found", finalState |-> FALSE] }

VARIABLES
  activeMeetTabs,   \* the Map tabId -> port, in insertion order: Seq of [tabId, port]
  globalMuteState,  \* [isMuted, hasMeetTab]
  badge,            \* the global badge: [text, color, title]
  storage,          \* chrome.storage.local: [muted]
  ports,            \* every channel opened so far: Seq of [tab, state]; a port's id is its index
  closedTabs,       \* tabs that were removed (tab ids are not reused)
  calls,            \* the calls of simpleToggleMute in flight: Seq of [pc, fromIconClick, newMutedState, origin]
  timers,           \* pending setTimeout callbacks of the background, in the order they were set
  checks,           \* verification callbacks past their storage read: Seq of the values read
  userActions,      \* icon clicks and shortcut commands so far
  lastConfirmed,    \* history: the value of the last confirmed report received (FALSE if none)
  lastEvent         \* history: the handler or continuation that ran last

\* The content script of one tab (meetmute.js) and the page it runs in
VARIABLES
  muted,                 \* let muted: the cached flag
  port,                  \* let port: "open", "dead" (postMessage throws) or "null"
  isMutedObserver,       \* the attribute observer watches the button now in the page
  waitingForMuteButton,  \* let waitingForMuteButton
  button,                \* the page holds an element matching MUTE_BUTTON
  dataIsMuted,           \* its data-is-muted attribute (FALSE while there is no button)
  pollers,               \* the running poll chains of waitUntilElementExists: Seq of [timeout, settled]
  agentTimers,           \* pending setTimeout callbacks of handleMessage, in the order they were set
  handled,               \* messages handled by handleMessage so far
  unloaded               \* the page was unloaded

\* One session end to end: the channel between the background and the content
\* script of one tab, and the page's handling of the simulated keystroke
VARIABLES
  toAgent,       \* commands posted on the port, not yet handled by the content script
  toBackground,  \* reports posted on the port, not yet handled by the background
  keys,          \* keydown events dispatched that the page has not applied yet
  original       \* history: data-is-muted when the session was attached

bgVars == <<activeMeetTabs, globalMuteState, badge, storage, ports, closedTabs,
            calls, timers, checks, userActions, lastConfirmed>>

agentVars == <<muted, port, isMutedObserver, waitingForMuteButton, button,
               dataIsMuted, pollers, agentTimers, handled, unloaded>>

linkVars == <<toAgent, toBackground, keys, original>>

vars == <<bgVars, agentVars, linkVars, lastEvent>>

\* --------------------------------------------------------------- registry

\* activeMeetTabs.has(tabId)
Has(amt, tabId) == \E i \in 1..Len(amt) : amt[i].tabId = tabId

\* activeMeetTabs.delete(tabId)
Delete(amt, tabId) == SelectSeq(amt, LAMBDA e : e.tabId # tabId)

\* activeMeetTabs.set(tabId, port): a key already present keeps its place
MapSet(amt, tabId, p) ==
  IF Has(amt, tabId)
    THEN [i \in 1..Len(amt) |->
            IF amt[i].tabId = tabId THEN [tabId |-> tabId, port |-> p] ELSE amt[i]]
    ELSE Append(amt, [tabId |-> tabId, port |-> p])

TabIds(amt) == { amt[i].tabId : i \in 1..Len(amt) }

\* ------------------------------------------------------------------ badge

\* updateAllTabsBadge: the badge for a global state
UpdateAllTabsBadge(g) ==
  IF g.hasMeetTab
    THEN (IF g.isMuted THEN BadgeMuted ELSE BadgeUnmuted)
    ELSE BadgeDisconnected

\* the badge simpleToggleMute paints for a mute flag
MuteBadge(m) == IF m THEN BadgeMuted ELSE BadgeUnmuted

\* ------------------------------------------------------- message handlers

\* ReportState taking every report, final or not
ReportStateAnyReport(g, r) ==
  [isMuted |-> (r.message = "muted"), hasMeetTab |-> TRUE]

\* ReportState without globalMuteState.hasMeetTab = true
ReportStateKeepsHasMeetTab(g, r) ==
  IF r.finalState THEN [g EXCEPT !.isMuted = (r.message = "muted")] ELSE g

\* port.onMessage / runtime.onMessage on a muted or unmuted report: the
\* global state after it (only a finalState report is taken)
ReportState(g, r) ==
  IF r.finalState
    THEN [isMuted |-> (r.message = "muted"), hasMeetTab |-> TRUE]
    ELSE g

\* port.onMessage on "disconnected": the global state after it
DisconnectedState(g, amt) ==
  IF Len(amt) <= 1 THEN [g EXCEPT !.hasMeetTab = FALSE] ELSE g

\* PortMessageResult resetting on every "disconnected", whatever the registry holds
PortMessageResultAlwaysResets(g, b, amt, r) ==
  CASE r.message \in {"muted", "unmuted"} ->
         [g |-> ReportState(g, r),
          badge |-> IF r.finalState THEN UpdateAllTabsBadge(ReportState(g, r)) ELSE b]
    [] r.message = "disconnected" ->
         [g |-> [g EXCEPT !.hasMeetTab = FALSE], badge |-> BadgeDisconnected]
    [] OTHER -> [g |-> g, badge |-> b]

\* port.onMessage listener: [g, badge] after message r
PortMessageResult(g, b, amt, r) ==
  CASE r.message \in {"muted", "unmuted"} ->
         [g |-> ReportState(g, r),
          badge |-> IF r.finalState THEN UpdateAllTabsBadge(ReportState(g, r)) ELSE b]
    [] r.message = "disconnected" ->
         IF Len(amt) <= 1
           THEN [g |-> DisconnectedState(g, amt),
                 badge |-> UpdateAllTabsBadge(DisconnectedState(g, amt))]
           ELSE [g |-> g, badge |-> b]
    [] OTHER -> [g |-> g, badge |-> b]

\* chrome.runtime.onMessage listener (sender.tab set): [g, badge] after message r
RuntimeMessageResult(g, b, r) ==
  IF r.message \in {"muted", "unmuted"}
    THEN [g |-> ReportState(g, r),
          badge |-> IF r.finalState THEN UpdateAllTabsBadge(ReportState(g, r)) ELSE b]
    ELSE [g |-> g, badge |-> b]

\* AfterDelete that clears the whole global state with the last session
AfterDeleteClearsMuted(g, b, amt) ==
  IF Len(amt) = 0
    THEN [g |-> [isMuted |-> FALSE, hasMeetTab |-> FALSE], badge |-> BadgeDisconnected]
    ELSE [g |-> g, badge |-> b]

\* The registry after a session leaves it (tabs.onRemoved, port.onDisconnect):
\* [g, badge], reset when the registry is left empty
AfterDelete(g, b, amt) ==
  IF Len(amt) = 0
    THEN [g |-> [g EXCEPT !.hasMeetTab = FALSE], badge |-> BadgeDisconnected]
    ELSE [g |-> g, badge |-> b]

\* -------------------------------------------------------------- broadcast

\* port.postMessage throws on a channel that is no longer open
PostThrows(ps, p) == ps[p].state # "open"

\* PostToAll with the try around the loop: the first failing entry is
\* deleted and ends the loop
RECURSIVE PostToAllAborting(_, _, _, _)
PostToAllAborting(amt, ps, i, sent) ==
  IF i > Len(amt) THEN [amt |-> amt, sent |-> sent]
  ELSE IF ps[amt[i].port].state # "open"
    THEN [amt |-> SelectSeq(amt, LAMBDA e : e.tabId # amt[i].tabId), sent |-> sent]
    ELSE PostToAllAborting(amt, ps, i + 1, Append(sent, amt[i].tabId))

\* sendMessageToContentScript over the stored ports, entry by entry from
\* position i on: [amt, sent]; a failing entry is deleted and the loop goes on
RECURSIVE PostToAll(_, _, _, _)
PostToAll(amt, ps, i, sent) ==
  IF i > Len(amt) THEN [amt |-> amt, sent |-> sent]
  ELSE IF PostThrows(ps, amt[i].port)
    THEN PostToAll(Delete(amt, amt[i].tabId), ps, i, sent)
    ELSE PostToAll(amt, ps, i + 1, Append(sent, amt[i].tabId))

\* sendMessageToContentScript: [amt, sent, fallback]
SendMessageToContentScript(amt, ps) ==
  IF Len(amt) > 0
    THEN [amt |-> PostToAll(amt, ps, 1, <<>>).amt,
          sent |-> PostToAll(amt, ps, 1, <<>>).sent,
          fallback |-> FALSE]
    ELSE [amt |-> amt, sent |-> <<>>, fallback |-> TRUE]

\* ------------------------------------------------------------------ timers

\* const verificationDelay = fromIconClick ? 300 : 500
VerificationDelay(fromIconClick) ==
  IF fromIconClick THEN IconClickDelay ELSE CommandDelay

\* A pending timer fires once every timer set before it with a delay no
\* longer than its own has fired.
MayFire(ts, k) == \A j \in 1..(k - 1) : ts[j].delay > ts[k].delay

RemoveAt(s, k) == SubSeq(s, 1, k - 1) \o SubSeq(s, k + 1, Len(s))

WarningPending == \E k \in 1..Len(timers) : timers[k].kind = "warn"

\* -------------------------------------------------------------------- Init

Init ==
  /\ activeMeetTabs = <<>>
  /\ globalMuteState = [isMuted |-> FALSE, hasMeetTab |-> FALSE]
  /\ badge = BadgeInstalled
  /\ storage = [muted |-> FALSE]
  /\ ports = <<>>
  /\ closedTabs = {}
  /\ calls = <<>>
  /\ timers = <<>>
  /\ checks = <<>>
  /\ userActions = 0
  /\ lastConfirmed = FALSE
  /\ lastEvent = [op |-> "init"]
  /\ muted = FALSE
  /\ port = "open"
  /\ isMutedObserver = FALSE
  /\ waitingForMuteButton = FALSE
  /\ button = FALSE
  /\ dataIsMuted = FALSE
  /\ pollers = <<>>
  /\ agentTimers = <<>>
  /\ handled = 0
  /\ unloaded = FALSE
  /\ toAgent = <<>>
  /\ toBackground = <<>>
  /\ keys = 0
  /\ original = FALSE

\* ----------------------------------------------- background: the registry

\* chrome.runtime.onConnect: the content script of tab t opens a channel
OnConnect(t) ==
  /\ t \notin closedTabs
  /\ Len(ports) < MaxPorts
  /\ ports' = Append(ports, [tab |-> t, state |-> "open"])
  /\ activeMeetTabs' = MapSet(activeMeetTabs, t, Len(ports) + 1)
  /\ lastEvent' = [op |-> "onConnect", tab |-> t, port |-> Len(ports) + 1]
  /\ UNCHANGED <<globalMuteState, badge, storage, closedTabs, calls, timers,
                 checks, userActions, lastConfirmed>>
  /\ UNCHANGED agentVars

\* The far end of channel p goes away (page unload, navigation): from now on
\* postMessage on p throws; its onDisconnect is dispatched later.
PortBreaks(p) ==
  /\ ports[p].state = "open"
  /\ ports' = [ports EXCEPT ![p].state = "dead"]
  /\ lastEvent' = [op |-> "portBreaks", port |-> p]
  /\ UNCHANGED <<activeMeetTabs, globalMuteState, badge, storage, closedTabs,
                 calls, timers, checks, userActions, lastConfirmed>>
  /\ UNCHANGED agentVars

\* port.onDisconnect listener of channel p (it closes over tabId only)
PortOnDisconnect(p) ==
  /\ ports[p].state \in {"open", "dead"}
  /\ ports' = [ports EXCEPT ![p].state = "closed"]
  /\ LET amt == Delete(activeMeetTabs, ports[p].tab)
         res == AfterDelete(globalMuteState, badge, amt)
     IN /\ activeMeetTabs' = amt
        /\ globalMuteState' = res.g
        /\ badge' = res.badge
  /\ lastEvent' = [op |-> "onDisconnect", tab |-> ports[p].tab,
                   last |-> (activeMeetTabs = <<[tabId |-> ports[p].tab, port |-> p]>>)]
  /\ UNCHANGED <<storage, closedTabs, calls, timers, checks, userActions,
                 lastConfirmed>>
  /\ UNCHANGED agentVars

\* chrome.tabs.onRemoved listener: tab t is closed; its channels go away
OnRemoved(t) ==
  /\ t \notin closedTabs
  /\ closedTabs' = closedTabs \cup {t}
  /\ ports' = [p \in 1..Len(ports) |->
                 IF ports[p].tab = t /\ ports[p].state = "open"
                   THEN [ports[p] EXCEPT !.state = "dead"] ELSE ports[p]]
  /\ IF Has(activeMeetTabs, t)
       THEN LET amt == Delete(activeMeetTabs, t)
                res == AfterDelete(globalMuteState, badge, amt)
            IN /\ activeMeetTabs' = amt
               /\ globalMuteState' = res.g
               /\ badge' = res.badge
       ELSE UNCHANGED <<activeMeetTabs, globalMuteState, badge>>
  /\ lastEvent' = [op |-> "onRemoved", tab |-> t,
                   last |-> (TabIds(activeMeetTabs) = {t})]
  /\ UNCHANGED <<storage, calls, timers, checks, userActions, lastConfirmed>>
  /\ UNCHANGED agentVars

\* port.onMessage listener of channel p, on report r
PortOnMessage(p, r) ==
  /\ ports[p].state = "open"
  /\ LET res == PortMessageResult(globalMuteState, badge, activeMeetTabs, r)
     IN /\ globalMuteState' = res.g
        /\ badge' = res.badge
  /\ lastConfirmed' = IF r.message \in {"muted", "unmuted"} /\ r.finalState
                        THEN (r.message = "muted") ELSE lastConfirmed
  /\ lastEvent' = [op |-> "portMessage", report |-> r]
  /\ UNCHANGED <<activeMeetTabs, storage, ports, closedTabs, calls, timers,
                 checks, userActions>>
  /\ UNCHANGED agentVars

\* chrome.runtime.onMessage listener, on a one-shot report r from tab t
RuntimeOnMessage(t, r) ==
  /\ t \notin closedTabs
  /\ LET res == RuntimeMessageResult(globalMuteState, badge, r)
     IN /\ globalMuteState' = res.g
        /\ badge' = res.badge
  /\ lastConfirmed' = IF r.message \in {"muted", "unmuted"} /\ r.finalState
                        THEN (r.message = "muted") ELSE lastConfirmed
  /\ lastEvent' = [op |-> "runtimeMessage", report |-> r]
  /\ UNCHANGED <<activeMeetTabs, storage, ports, closedTabs, calls, timers,
                 checks, userActions>>
  /\ UNCHANGED agentVars

\* ------------------------------------------- background: the toggle sequence

\* simpleToggleMute(fromIconClick) is called: it awaits storage.local.get
\* (origin is history: the listener that made the call)
SimpleToggleMute(fromIconClick, origin) ==
  /\ calls' = Append(calls, [pc |-> "get", fromIconClick |-> fromIconClick,
                             newMutedState |-> FALSE, origin |-> origin])
  /\ UNCHANGED <<activeMeetTabs, globalMuteState, badge, storage, ports,
                 closedTabs, timers, checks, lastConfirmed>>

\* OnCommand calling simpleToggleMute(false)
OnCommandNotAsIconClick ==
  /\ userActions < MaxCalls
  /\ userActions' = userActions + 1
  /\ SimpleToggleMute(FALSE, "command")
  /\ lastEvent' = [op |-> "onCommand", warned |-> FALSE]
  /\ UNCHANGED agentVars

\* chrome.commands.onCommand listener, command "toggle_mute"
OnCommand ==
  /\ userActions < MaxCalls
  /\ userActions' = userActions + 1
  /\ SimpleToggleMute(TRUE, "command")
  /\ lastEvent' = [op |-> "onCommand", warned |-> FALSE]
  /\ UNCHANGED agentVars

\* chrome.action.onClicked listener
OnClicked ==
  /\ userActions < MaxCalls
  /\ userActions' = userActions + 1
  /\ IF Len(activeMeetTabs) = 0
       THEN /\ badge' = BadgeWarning
            /\ timers' = Append(timers, [kind |-> "warn", delay |-> WarningDuration])
            /\ lastEvent' = [op |-> "onClicked", warned |-> TRUE]
            /\ UNCHANGED <<activeMeetTabs, globalMuteState, storage, ports,
                           closedTabs, calls, checks, lastConfirmed>>
       ELSE /\ SimpleToggleMute(TRUE, "click")
            /\ lastEvent' = [op |-> "onClicked", warned |-> FALSE]
  /\ UNCHANGED agentVars

\* Call i: storage.local.get answers; newMutedState = !result.muted, and
\* storage.local.set is awaited
StorageGet(i) ==
  /\ calls[i].pc = "get"
  /\ calls' = [calls EXCEPT ![i].pc = "set", ![i].newMutedState = ~storage.muted]
  /\ lastEvent' = [op |-> "storageGet"]
  /\ UNCHANGED <<activeMeetTabs, globalMuteState, badge, storage, ports,
                 closedTabs, timers, checks, userActions, lastConfirmed>>
  /\ UNCHANGED agentVars

\* StorageSet resuming the call without the write
StorageSetSkipped(i) ==
  /\ calls[i].pc = "set"
  /\ calls' = [calls EXCEPT ![i].pc = "cont"]
  /\ lastEvent' = [op |-> "storageSet"]
  /\ UNCHANGED <<activeMeetTabs, globalMuteState, badge, storage, ports,
                 closedTabs, timers, checks, userActions, lastConfirmed>>
  /\ UNCHANGED agentVars

\* Call i: storage.local.set is applied
StorageSet(i) ==
  /\ calls[i].pc = "set"
  /\ storage' = [storage EXCEPT !.muted = calls[i].newMutedState]
  /\ calls' = [calls EXCEPT ![i].pc = "cont"]
  /\ lastEvent' = [op |-> "storageSet"]
  /\ UNCHANGED <<activeMeetTabs, globalMuteState, badge, ports, closedTabs,
                 timers, checks, userActions, lastConfirmed>>
  /\ UNCHANGED agentVars

\* Call i resumes after the set: the optimistic paint (not for an icon
\* click), the broadcast and the verification timer
ToggleContinue(i) ==
  /\ calls[i].pc = "cont"
  /\ LET c == calls[i]
         sent == SendMessageToContentScript(activeMeetTabs, ports)
     IN /\ badge' = IF ~c.fromIconClick THEN MuteBadge(c.newMutedState) ELSE badge
        /\ activeMeetTabs' = sent.amt
        /\ timers' = Append(timers, [kind |-> "verify",
                                     delay |-> VerificationDelay(c.fromIconClick)])
        /\ lastEvent' = [op |-> "toggleContinue", origin |-> c.origin,
                         painted |-> ~c.fromIconClick,
                         command |-> [action |-> "toggleMute", muted |-> c.newMutedState],
                         sent |-> sent.sent, fallback |-> sent.fallback,
                         dropped |-> Len(activeMeetTabs) - Len(sent.amt),
                         delay |-> VerificationDelay(c.fromIconClick)]
  /\ calls' = RemoveAt(calls, i)
  /\ UNCHANGED <<globalMuteState, storage, ports, closedTabs, checks,
                 userActions, lastConfirmed>>
  /\ UNCHANGED agentVars

\* The warning's timer fires: the badge is reset
WarningTimer(k) ==
  /\ timers[k].kind = "warn"
  /\ MayFire(timers, k)
  /\ timers' = RemoveAt(timers, k)
  /\ badge' = BadgeDisconnected
  /\ lastEvent' = [op |-> "warningTimer"]
  /\ UNCHANGED <<activeMeetTabs, globalMuteState, storage, ports, closedTabs,
                 calls, checks, userActions, lastConfirmed>>
  /\ UNCHANGED agentVars

\* A verification timer fires and its storage.local.get answers
VerificationTimer(k) ==
  /\ timers[k].kind = "verify"
  /\ MayFire(timers, k)
  /\ timers' = RemoveAt(timers, k)
  /\ checks' = Append(checks, storage.muted)
  /\ lastEvent' = [op |-> "verificationTimer", delay |-> timers[k].delay]
  /\ UNCHANGED <<activeMeetTabs, globalMuteState, badge, storage, ports,
                 closedTabs, calls, userActions, lastConfirmed>>
  /\ UNCHANGED agentVars

\* The verification callback resumes: the badge is painted from the value read
VerificationPaint ==
  /\ Len(checks) > 0
  /\ badge' = MuteBadge(Head(checks))
  /\ checks' = Tail(checks)
  /\ lastEvent' = [op |-> "verificationPaint", muted |-> Head(checks)]
  /\ UNCHANGED <<activeMeetTabs, globalMuteState, storage, ports, closedTabs,
                 calls, timers, userActions, lastConfirmed>>
  /\ UNCHANGED agentVars

\* ------------------------------------------------------------------- Next

Next ==
  \/ \E t \in Tabs : OnConnect(t) /\ UNCHANGED linkVars
  \/ \E p \in 1..Len(ports) : PortBreaks(p) /\ UNCHANGED linkVars
  \/ \E p \in 1..Len(ports) : PortOnDisconnect(p) /\ UNCHANGED linkVars
  \/ \E t \in Tabs : OnRemoved(t) /\ UNCHANGED linkVars
  \/ \E p \in 1..Len(ports), r \in Reports : PortOnMessage(p, r) /\ UNCHANGED linkVars
  \/ \E t \in Tabs, r \in Reports : RuntimeOnMessage(t, r) /\ UNCHANGED linkVars
  \/ OnCommand /\ UNCHANGED linkVars
  \/ OnClicked /\ UNCHANGED linkVars
  \/ \E i \in 1..Len(calls) : StorageGet(i) /\ UNCHANGED linkVars
  \/ \E i \in 1..Len(calls) : StorageSet(i) /\ UNCHANGED linkVars
  \/ \E i \in 1..Len(calls) : ToggleContinue(i) /\ UNCHANGED linkVars
  \/ \E k \in 1..Len(timers) : WarningTimer(k) /\ UNCHANGED linkVars
  \/ \E k \in 1..Len(timers) : VerificationTimer(k) /\ UNCHANGED linkVars
  \/ VerificationPaint /\ UNCHANGED linkVars

Spec == Init /\ [][Next]_vars

\* ---------------------------------------------------- content script

\* Report with the two messages swapped
ReportSwapped(v) == [message |-> IF v THEN "unmuted" ELSE "muted", finalState |-> TRUE]

\* the message updateMuted sends for a mute flag
Report(v) == [message |-> IF v THEN "muted" ELSE "unmuted", finalState |-> TRUE]

\* sendMessageToBackground: the way a message leaves for a port state
Via(p) == IF p = "open" THEN "port" ELSE "oneShot"

\* updateMuted(newValue): [muted, sent]; nothing without the button
UpdateMuted(m, btn, newValue) ==
  IF btn THEN [muted |-> newValue, sent |-> <<Report(newValue)>>]
         ELSE [muted |-> m, sent |-> <<>>]

\* FinalReportValue reporting the quick check
FinalReportValueQuick(quickCheckState, finalState) == quickCheckState

\* The value handleMessage's final check reports, of the two it read
FinalReportValue(quickCheckState, finalState) == finalState

\* ObserverCallback without the comparison with the cached flag
ObserverCallbackAlways(m, btn, newValue) == UpdateMuted(m, btn, newValue)

\* The MutationObserver callback of watchIsMuted, the attribute now being
\* newValue: [muted, sent]
ObserverCallback(m, btn, newValue) ==
  IF newValue # m THEN UpdateMuted(m, btn, newValue)
                  ELSE [muted |-> m, sent |-> <<>>]

\* One run of waitForContainerElement for a chain [timeout, settled], the
\* button being there or not: the chain after it (none once the element is
\* found), and what the promise does
PollStep(c, btn) ==
  LET t == IF c.timeout + PollInterval >= MaxTime THEN MaxTime
           ELSE c.timeout + PollInterval
      rejects == t >= MaxTime /\ ~c.settled
      resolves == btn /\ ~c.settled /\ ~rejects
  IN [rejects |-> rejects, resolves |-> resolves,
      chain |-> IF btn THEN <<>>
                ELSE <<[timeout |-> t, settled |-> c.settled \/ rejects]>>]

\* The promise callbacks of waitForMuteButton after a poll with outcome r:
\* [muted, observer, waiting, sent]
SearchOutcome(r, m, obs, w, attr) ==
  CASE r.resolves ->
         [muted |-> attr, observer |-> TRUE, waiting |-> FALSE,
          sent |-> <<Report(attr), [message |-> "mute_button_found", finalState |-> FALSE]>>]
    [] r.rejects ->
         [muted |-> m, observer |-> obs, waiting |-> FALSE,
          sent |-> <<[message |-> "disconnected", finalState |-> FALSE]>>]
    [] OTHER -> [muted |-> m, observer |-> obs, waiting |-> w, sent |-> <<>>]

\* waitForMuteButton(): a search starts unless one is waiting; its first
\* poll runs at once
WaitForMuteButton(op) ==
  IF waitingForMuteButton
    THEN /\ lastEvent' = [op |-> op, sent |-> <<>>, via |-> Via(port), started |-> FALSE]
         /\ UNCHANGED <<muted, isMutedObserver, waitingForMuteButton, pollers>>
    ELSE LET r == PollStep([timeout |-> 0, settled |-> FALSE], button)
             o == SearchOutcome(r, muted, isMutedObserver, TRUE, dataIsMuted)
         IN /\ Len(pollers) < MaxPollers
            /\ pollers' = pollers \o r.chain
            /\ muted' = o.muted
            /\ isMutedObserver' = o.observer
            /\ waitingForMuteButton' = o.waiting
            /\ lastEvent' = [op |-> op, sent |-> o.sent, via |-> Via(port), started |-> TRUE]

\* The observer of watchBodyClass sees the class of body change
BodyClassChange ==
  /\ ~unloaded
  /\ WaitForMuteButton("bodyClassChange")
  /\ UNCHANGED <<port, button, dataIsMuted, agentTimers, handled>>
  /\ UNCHANGED <<unloaded, bgVars>>

\* The timer of poll chain k fires: waitForContainerElement runs again
PollTimer(k) ==
  /\ ~unloaded
  /\ LET r == PollStep(pollers[k], button)
         o == SearchOutcome(r, muted, isMutedObserver, waitingForMuteButton, dataIsMuted)
     IN /\ pollers' = SubSeq(pollers, 1, k - 1) \o r.chain \o SubSeq(pollers, k + 1, Len(pollers))
        /\ muted' = o.muted
        /\ isMutedObserver' = o.observer
        /\ waitingForMuteButton' = o.waiting
        /\ lastEvent' = [op |-> "pollTimer", sent |-> o.sent, via |-> Via(port),
                         settled |-> pollers[k].settled]
  /\ UNCHANGED <<port, button, dataIsMuted, agentTimers, handled>>
  /\ UNCHANGED <<unloaded, bgVars>>

\* handleMessage({action: "toggleMute"}), from the port or as a one-shot
\* message.  sync: the page's key handler flips the attribute inside
\* dispatchEvent (the observer then finds it equal to the flipped flag).
HandleMessage(sync) ==
  /\ ~unloaded
  /\ handled < MaxCommands
  /\ handled' = handled + 1
  /\ IF button
       THEN /\ muted' = ~dataIsMuted
            /\ dataIsMuted' = IF sync THEN ~dataIsMuted ELSE dataIsMuted
            /\ agentTimers' = Append(agentTimers,
                 [kind |-> "quick", delay |-> QuickCheckDelay, quickCheckState |-> FALSE])
            /\ lastEvent' = [op |-> "handleMessage", sent |-> <<>>, via |-> Via(port),
                             attached |-> isMutedObserver]
            /\ UNCHANGED <<isMutedObserver, waitingForMuteButton, pollers>>
       ELSE /\ WaitForMuteButton("handleMessage")
            /\ UNCHANGED <<dataIsMuted, agentTimers>>
  /\ UNCHANGED <<port, button>>
  /\ UNCHANGED <<unloaded, bgVars>>

\* The quick check: isMuted() is read (it throws without the button) and the
\* final check is set
QuickCheck(k) ==
  /\ ~unloaded
  /\ agentTimers[k].kind = "quick"
  /\ MayFire(agentTimers, k)
  /\ agentTimers' = IF button
       THEN Append(RemoveAt(agentTimers, k),
              [kind |-> "final", delay |-> FinalCheckDelay, quickCheckState |-> dataIsMuted])
       ELSE RemoveAt(agentTimers, k)
  /\ lastEvent' = [op |-> "quickCheck", sent |-> <<>>, via |-> Via(port), read |-> button]
  /\ UNCHANGED <<muted, port, isMutedObserver, waitingForMuteButton, button,
                 dataIsMuted, pollers, handled>>
  /\ UNCHANGED <<unloaded, bgVars>>

\* The final check: isMuted() is read again (it throws without the button)
\* and updateMuted reports
FinalCheck(k) ==
  /\ ~unloaded
  /\ agentTimers[k].kind = "final"
  /\ MayFire(agentTimers, k)
  /\ agentTimers' = RemoveAt(agentTimers, k)
  /\ LET u == UpdateMuted(muted, button,
                          FinalReportValue(agentTimers[k].quickCheckState, dataIsMuted))
     IN /\ muted' = u.muted
        /\ lastEvent' = [op |-> "finalCheck", sent |-> u.sent, via |-> Via(port),
                         read |-> button,
                         quickCheckState |-> agentTimers[k].quickCheckState]
  /\ UNCHANGED <<port, isMutedObserver, waitingForMuteButton, button,
                 dataIsMuted, pollers, handled>>
  /\ UNCHANGED <<unloaded, bgVars>>

\* The page sets data-is-muted to v; the observer of watchIsMuted, if it
\* watches this button, runs before any other callback of the script
AttrMutation(v) ==
  /\ ~unloaded
  /\ button
  /\ dataIsMuted' = v
  /\ LET o == IF isMutedObserver THEN ObserverCallback(muted, button, v)
                                 ELSE [muted |-> muted, sent |-> <<>>]
     IN /\ muted' = o.muted
        /\ lastEvent' = [op |-> "attrMutation", sent |-> o.sent, via |-> Via(port),
                         attached |-> isMutedObserver]
  /\ UNCHANGED <<port, isMutedObserver, waitingForMuteButton, button,
                 pollers, agentTimers, handled>>
  /\ UNCHANGED <<unloaded, bgVars>>

\* The page removes the button (the observer stays on the removed element)
ButtonRemoved ==
  /\ ~unloaded
  /\ button
  /\ button' = FALSE
  /\ dataIsMuted' = FALSE
  /\ isMutedObserver' = FALSE
  /\ lastEvent' = [op |-> "buttonRemoved", sent |-> <<>>, via |-> Via(port)]
  /\ UNCHANGED <<muted, port, waitingForMuteButton, pollers, agentTimers, handled>>
  /\ UNCHANGED <<unloaded, bgVars>>

\* The page renders a button, its attribute v
ButtonAdded(v) ==
  /\ ~unloaded
  /\ ~button
  /\ button' = TRUE
  /\ dataIsMuted' = v
  /\ lastEvent' = [op |-> "buttonAdded", sent |-> <<>>, via |-> Via(port)]
  /\ UNCHANGED <<muted, port, isMutedObserver, waitingForMuteButton, pollers,
                 agentTimers, handled>>
  /\ UNCHANGED <<unloaded, bgVars>>

\* The background end of the channel goes away: postMessage throws from now on
PortDies ==
  /\ ~unloaded
  /\ port = "open"
  /\ port' = "dead"
  /\ lastEvent' = [op |-> "portDies", sent |-> <<>>, via |-> "oneShot"]
  /\ UNCHANGED <<muted, isMutedObserver, waitingForMuteButton, button,
                 dataIsMuted, pollers, agentTimers, handled>>
  /\ UNCHANGED <<unloaded, bgVars>>

\* AgentOnDisconnect setting the timer whether or not lastError is set
AgentOnDisconnectAlwaysRetries(lastError) ==
  /\ ~unloaded
  /\ port \in {"open", "dead"}
  /\ port' = "null"
  /\ agentTimers' = Append(agentTimers, [kind |-> "reconnect", delay |-> ReconnectDelay,
                                         quickCheckState |-> FALSE])
  /\ lastEvent' = [op |-> "agentOnDisconnect", sent |-> <<>>, via |-> "oneShot",
                   lastError |-> lastError]
  /\ UNCHANGED <<muted, isMutedObserver, waitingForMuteButton, button,
                 dataIsMuted, pollers, handled>>
  /\ UNCHANGED <<unloaded, bgVars>>

\* port.onDisconnect listener of the content script; lastError: the
\* disconnection was forced
AgentOnDisconnect(lastError) ==
  /\ ~unloaded
  /\ port \in {"open", "dead"}
  /\ port' = "null"
  /\ agentTimers' = IF lastError
       THEN Append(agentTimers, [kind |-> "reconnect", delay |-> ReconnectDelay,
                                 quickCheckState |-> FALSE])
       ELSE agentTimers
  /\ lastEvent' = [op |-> "agentOnDisconnect", sent |-> <<>>, via |-> "oneShot",
                   lastError |-> lastError]
  /\ UNCHANGED <<muted, isMutedObserver, waitingForMuteButton, button,
                 dataIsMuted, pollers, handled>>
  /\ UNCHANGED <<unloaded, bgVars>>

\* connectToBackgroundScript, from the reconnection timer; ok: runtime.connect
\* returns a port (it throws otherwise and port stays as it is)
Reconnect(k, ok) ==
  /\ ~unloaded
  /\ agentTimers[k].kind = "reconnect"
  /\ MayFire(agentTimers, k)
  /\ agentTimers' = RemoveAt(agentTimers, k)
  /\ port' = IF ok THEN "open" ELSE port
  /\ lastEvent' = [op |-> "reconnect", sent |-> <<>>, via |-> "oneShot", ok |-> ok]
  /\ UNCHANGED <<muted, isMutedObserver, waitingForMuteButton, button,
                 dataIsMuted, pollers, handled>>
  /\ UNCHANGED <<unloaded, bgVars>>

\* window.onbeforeunload: a one-shot "disconnected", and the script is gone
Unload ==
  /\ ~unloaded
  /\ unloaded' = TRUE
  /\ lastEvent' = [op |-> "unload", via |-> "oneShot",
                   sent |-> <<[message |-> "disconnected", finalState |-> FALSE]>>]
  /\ UNCHANGED <<muted, port, isMutedObserver, waitingForMuteButton, button,
                 dataIsMuted, pollers, agentTimers, handled>>
  /\ UNCHANGED bgVars

\* The content script after it loaded, in a page with or without the button
InitAgent ==
  /\ activeMeetTabs = <<>>
  /\ globalMuteState = [isMuted |-> FALSE, hasMeetTab |-> FALSE]
  /\ badge = BadgeInstalled
  /\ storage = [muted |-> FALSE]
  /\ ports = <<>>
  /\ closedTabs = {}
  /\ calls = <<>>
  /\ timers = <<>>
  /\ checks = <<>>
  /\ userActions = 0
  /\ lastConfirmed = FALSE
  /\ lastEvent = [op |-> "init"]
  /\ muted = FALSE
  /\ port = "open"
  /\ isMutedObserver = FALSE
  /\ waitingForMuteButton = FALSE
  /\ button \in BOOLEAN
  /\ dataIsMuted \in (IF button THEN BOOLEAN ELSE {FALSE})
  /\ pollers = <<>>
  /\ agentTimers = <<>>
  /\ handled = 0
  /\ unloaded = FALSE
  /\ toAgent = <<>>
  /\ toBackground = <<>>
  /\ keys = 0
  /\ original = FALSE

NextAgent ==
  \/ BodyClassChange /\ UNCHANGED linkVars
  \/ \E k \in 1..Len(pollers) : PollTimer(k) /\ UNCHANGED linkVars
  \/ \E sync \in BOOLEAN : HandleMessage(sync) /\ UNCHANGED linkVars
  \/ \E k \in 1..Len(agentTimers) : QuickCheck(k) /\ UNCHANGED linkVars
  \/ \E k \in 1..Len(agentTimers) : FinalCheck(k) /\ UNCHANGED linkVars
  \/ \E v \in BOOLEAN : AttrMutation(v) /\ UNCHANGED linkVars
  \/ ButtonRemoved /\ UNCHANGED linkVars
  \/ \E v \in BOOLEAN : ButtonAdded(v) /\ UNCHANGED linkVars
  \/ PortDies /\ UNCHANGED linkVars
  \/ \E e \in BOOLEAN : AgentOnDisconnect(e) /\ UNCHANGED linkVars
  \/ \E k \in 1..Len(agentTimers), ok \in BOOLEAN : Reconnect(k, ok) /\ UNCHANGED linkVars
  \/ Unload /\ UNCHANGED linkVars

SpecAgent == InitAgent /\ [][NextAgent]_vars

\* The content script under the event loop's guarantee that a timer that is
\* due fires: the checks of handleMessage and the polls of a search.  What
\* the page, the user and the background do is not forced.
FairSpecAgent ==
  /\ SpecAgent
  /\ WF_vars(\E k \in 1..Len(agentTimers) : QuickCheck(k) /\ UNCHANGED linkVars)
  /\ WF_vars(\E k \in 1..Len(agentTimers) : FinalCheck(k) /\ UNCHANGED linkVars)
  /\ WF_vars(\E k \in 1..Len(pollers) : PollTimer(k) /\ UNCHANGED linkVars)

\* ------------------------------------------- one session, end to end

\* The only tab of the session specification, and its channel
SessionTab == 1
SessionPort == 1

\* An attached session: the content script of the tab has connected, found
\* the button and reported its attribute, and the background has taken the
\* report.  The persisted preference is whatever earlier toggles left.
InitSession ==
  /\ activeMeetTabs = <<[tabId |-> SessionTab, port |-> SessionPort]>>
  /\ ports = <<[tab |-> SessionTab, state |-> "open"]>>
  /\ closedTabs = {}
  /\ button = TRUE
  /\ dataIsMuted \in BOOLEAN
  /\ original = dataIsMuted
  /\ muted = dataIsMuted
  /\ isMutedObserver = TRUE
  /\ waitingForMuteButton = FALSE
  /\ port = "open"
  /\ globalMuteState = [isMuted |-> dataIsMuted, hasMeetTab |-> TRUE]
  /\ lastConfirmed = dataIsMuted
  /\ badge = UpdateAllTabsBadge(globalMuteState)
  /\ storage \in [muted : BOOLEAN]
  /\ calls = <<>>
  /\ timers = <<>>
  /\ checks = <<>>
  /\ userActions = 0
  /\ pollers = <<>>
  /\ agentTimers = <<>>
  /\ handled = 0
  /\ unloaded = FALSE
  /\ toAgent = <<>>
  /\ toBackground = <<>>
  /\ keys = 0
  /\ lastEvent = [op |-> "init"]

\* Call i resumes after the set; port.postMessage queues the command for
\* the content script of every session it was posted to
PostToggle(i) ==
  /\ ToggleContinue(i)
  /\ toAgent' = toAgent \o [n \in 1..Len(lastEvent'.sent) |-> lastEvent'.command]
  /\ UNCHANGED <<toBackground, keys, original>>

\* The port.onMessage listener of the content script takes the next
\* command: handleMessage.  A keydown the page does not apply inside
\* dispatchEvent is left for it to apply later.
DeliverToggle(sync) ==
  /\ Len(toAgent) > 0
  /\ HandleMessage(sync)
  /\ toAgent' = Tail(toAgent)
  /\ keys' = IF button /\ ~sync THEN keys + 1 ELSE keys
  /\ UNCHANGED <<toBackground, original>>

\* The page applies a keydown it was sent: the attribute flips, and the
\* attribute observer runs
PageAppliesKey ==
  /\ keys > 0
  /\ AttrMutation(~dataIsMuted)
  /\ keys' = keys - 1
  /\ toBackground' = toBackground \o lastEvent'.sent
  /\ UNCHANGED <<toAgent, original>>

\* The final check, its report posted on the port
PostFinalCheck(k) ==
  /\ FinalCheck(k)
  /\ toBackground' = toBackground \o lastEvent'.sent
  /\ UNCHANGED <<toAgent, keys, original>>

\* The port.onMessage listener of the background takes the next report
DeliverReport ==
  /\ Len(toBackground) > 0
  /\ PortOnMessage(SessionPort, Head(toBackground))
  /\ toBackground' = Tail(toBackground)
  /\ UNCHANGED <<toAgent, keys, original>>

NextSession ==
  \/ OnCommand /\ UNCHANGED linkVars
  \/ OnClicked /\ UNCHANGED linkVars
  \/ \E i \in 1..Len(calls) : StorageGet(i) /\ UNCHANGED linkVars
  \/ \E i \in 1..Len(calls) : StorageSet(i) /\ UNCHANGED linkVars
  \/ \E i \in 1..Len(calls) : PostToggle(i)
  \/ \E sync \in BOOLEAN : DeliverToggle(sync)
  \/ PageAppliesKey
  \/ \E k \in 1..Len(agentTimers) : QuickCheck(k) /\ UNCHANGED linkVars
  \/ \E k \in 1..Len(agentTimers) : PostFinalCheck(k)
  \/ DeliverReport
  \/ \E k \in 1..Len(timers) : VerificationTimer(k) /\ UNCHANGED linkVars
  \/ VerificationPaint /\ UNCHANGED linkVars

SpecSession == InitSession /\ [][NextSession]_vars

\* ------------------------------------------------------------------ claims

IsMuted == globalMuteState.isMuted
HasMeetTab == globalMuteState.hasMeetTab

ConfirmedReport(e) ==
  /\ e.op \in {"portMessage", "runtimeMessage"}
  /\ e.report.message \in {"muted", "unmuted"}
  /\ e.report.finalState

\* C1: after every mutation of the registry, hasMeetTab is true iff
\* activeMeetTabs is non-empty.  (Violated: onConnect registers a session and
\* leaves hasMeetTab false.)
C1_HasMeetTabIffNonEmpty == HasMeetTab <=> (Len(activeMeetTabs) > 0)

\* C2: isMuted is the value of the most recently received confirmed report
\* (false if none), and no step other than the receipt of a confirmed report
\* changes it.
C2_IsMutedIsLastConfirmed ==
  /\ [](IsMuted = lastConfirmed)
  /\ [][~ConfirmedReport(lastEvent') => (globalMuteState'.isMuted = IsMuted)]_vars

\* A toggle was requested and verified, the badge shows its value, and
\* isMuted still holds the last confirmed report's opposite value.
C2_Witness ==
  /\ lastEvent.op = "verificationPaint"
  /\ lastEvent.muted = TRUE
  /\ badge = BadgeMuted
  /\ HasMeetTab
  /\ lastConfirmed = FALSE
  /\ IsMuted = FALSE

\* C3: whenever hasMeetTab is false the badge has the disconnected appearance
\* (the never-painted badge of a fresh install counted as such), except for
\* the warning while its timer is pending.
C3_DisconnectedBadgeWithoutSession ==
  ~HasMeetTab =>
    \/ badge \in {BadgeDisconnected, BadgeInstalled}
    \/ (badge = BadgeWarning /\ WarningPending)

\* C4: the receipt of a confirmed muted/unmuted report, over a channel or as
\* a one-shot message, leaves hasMeetTab true, isMuted equal to the reported
\* value and the badge with the matching appearance.
C4_ConfirmedReportSetsState ==
  ConfirmedReport(lastEvent) =>
    /\ HasMeetTab
    /\ IsMuted = (lastEvent.report.message = "muted")
    /\ badge = (IF lastEvent.report.message = "muted" THEN BadgeMuted ELSE BadgeUnmuted)

\* A one-shot confirmed "muted" report received with no session registered.
C4_Witness ==
  /\ lastEvent.op = "runtimeMessage"
  /\ lastEvent.report = [message |-> "muted", finalState |-> TRUE]
  /\ activeMeetTabs = <<>>
  /\ HasMeetTab /\ IsMuted /\ badge = BadgeMuted

\* C5: when the channel of the only registered session disconnects, or its
\* tab is removed, the registry is left empty, hasMeetTab becomes false, the
\* badge becomes the disconnected one and isMuted keeps its value.
C5_LastSessionLeaves ==
  [][(lastEvent'.op \in {"onDisconnect", "onRemoved"} /\ lastEvent'.last) =>
       /\ activeMeetTabs' = <<>>
       /\ ~globalMuteState'.hasMeetTab
       /\ badge' = BadgeDisconnected
       /\ globalMuteState'.isMuted = IsMuted]_vars

\* The only session's channel disconnected while isMuted was true.
C5_Witness ==
  /\ lastEvent.op = "onDisconnect"
  /\ lastEvent.last
  /\ IsMuted /\ ~HasMeetTab
  /\ badge = BadgeDisconnected

\* The registered sessions whose channel takes a message
Healthy(amt, ps) == SelectSeq(amt, LAMBDA e : ps[e.port].state = "open")

\* C6: a broadcast over a non-empty registry posts the command to every
\* session whose channel is open, once and in registry order, deletes exactly
\* the sessions whose channel fails, and does not take the fallback path.
C6_BroadcastDropsOnlyFailing ==
  [][(lastEvent'.op = "toggleContinue" /\ Len(activeMeetTabs) > 0) =>
       /\ activeMeetTabs' = Healthy(activeMeetTabs, ports)
       /\ lastEvent'.sent = [i \in 1..Len(Healthy(activeMeetTabs, ports)) |->
                               Healthy(activeMeetTabs, ports)[i].tabId]
       /\ ~lastEvent'.fallback]_vars

\* A broadcast that met the failing session of tab 1 first and the healthy
\* session of tab 2 second.
C6_Witness ==
  /\ lastEvent.op = "toggleContinue"
  /\ lastEvent.dropped = 1
  /\ lastEvent.sent = <<2>>
  /\ ports = <<[tab |-> 1, state |-> "dead"], [tab |-> 2, state |-> "open"]>>
  /\ activeMeetTabs = <<[tabId |-> 2, port |-> 2]>>

\* The final checks pending among the content script's timers
FinalChecksPending(ts) == Cardinality({k \in 1..Len(ts) : ts[k].kind = "final"})

\* C7: a toggle command sets the quick check only; the quick check reports
\* nothing and, having read the attribute, sets the final check (so no final
\* check is pending that a quick check did not precede); the final check
\* reports exactly the value it reads, whatever the quick check read, and
\* caches it.
C7_FinalCheckWins ==
  /\ [](lastEvent.op = "quickCheck" => lastEvent.sent = <<>>)
  /\ [](lastEvent.op = "finalCheck" =>
          IF lastEvent.read
            THEN lastEvent.sent = <<Report(dataIsMuted)>> /\ muted = dataIsMuted
            ELSE lastEvent.sent = <<>>)
  /\ [][FinalChecksPending(agentTimers') > FinalChecksPending(agentTimers) =>
          /\ lastEvent'.op = "quickCheck"
          /\ lastEvent'.read
          /\ agentTimers'[Len(agentTimers')] =
               [kind |-> "final", delay |-> FinalCheckDelay, quickCheckState |-> dataIsMuted]]_vars

\* The quick check read true, the page reverted, and the final check read
\* and reported false, with the observer attached.
C7_Witness ==
  /\ lastEvent.op = "finalCheck"
  /\ lastEvent.quickCheckState = TRUE
  /\ lastEvent.sent = <<[message |-> "unmuted", finalState |-> TRUE]>>
  /\ isMutedObserver
  /\ dataIsMuted = FALSE
  /\ muted = FALSE

\* C8: with the observer attached to the button, a change of the attribute
\* to a value other than the cached flag sends exactly one confirmed report
\* of the new value and caches it; a notification whose value equals the
\* cached flag sends nothing.
C8_ObserverReportsChanges ==
  [][(lastEvent'.op = "attrMutation" /\ isMutedObserver /\ button) =>
       IF dataIsMuted' # muted
         THEN lastEvent'.sent = <<Report(dataIsMuted')>> /\ muted' = dataIsMuted'
         ELSE lastEvent'.sent = <<>> /\ muted' = muted]_vars

\* No command was handled; the page set the attribute to true and the
\* attached observer reported muted.
C8_Witness ==
  /\ lastEvent.op = "attrMutation"
  /\ lastEvent.attached
  /\ lastEvent.sent = <<[message |-> "muted", finalState |-> TRUE]>>
  /\ handled = 0
  /\ muted /\ dataIsMuted

\* The case of C9: a call made by the shortcut command resumes after writing
\* newMutedState = true and posts to the one registered session.
C9_Case(e, amt) ==
  /\ e.op = "toggleContinue"
  /\ e.origin = "command"
  /\ e.command.muted = TRUE
  /\ Len(amt) = 1
  /\ Len(e.sent) = 1

C10_NoSessionActionWarns ==
  (lastEvent.op \in {"onClicked", "onCommand"} /\ Len(activeMeetTabs) = 0) =>
    /\ lastEvent.warned
    /\ badge = BadgeWarning
    /\ WarningPending
    /\ calls = <<>>

\* Nothing of a toggle sequence is left: no call in flight, no timer
\* pending, no message in a channel, no keydown the page still has to apply
Quiesced ==
  /\ calls = <<>> /\ timers = <<>> /\ checks = <<>>
  /\ toAgent = <<>> /\ toBackground = <<>>
  /\ agentTimers = <<>> /\ keys = 0

\* C11: from an attached session whose isMuted agrees with the page's
\* attribute, once two toggle requests have been handled by the content
\* script, the page has applied both keydowns and every report has been
\* received, isMuted and the attribute are back at their original value
\* (after one request they hold the opposite value).
C11_DoubleToggleRestores ==
  Quiesced =>
    /\ handled = 2 => (IsMuted = original /\ dataIsMuted = original)
    /\ handled = 1 => (IsMuted = ~original /\ dataIsMuted = ~original)

\* Two icon clicks from a muted page, both handled, every report received:
\* isMuted is true again.
C11_Witness ==
  /\ Quiesced
  /\ userActions = 2 /\ handled = 2
  /\ original = TRUE
  /\ IsMuted /\ dataIsMuted
  /\ lastConfirmed = TRUE

DisconnectedReport == [message |-> "disconnected", finalState |-> FALSE]

\* C12: once the background has handled a "disconnected" report from tab t,
\* received over one of t's channels or as a one-shot message, the registry
\* holds no session for t.  (Violated: neither listener deletes the session,
\* and the one-shot listener ignores the message.)
C12_DisconnectedReportDestroysSession ==
  [][\A t \in Tabs :
       (\/ \E p \in 1..Len(ports) :
             ports[p].tab = t /\ PortOnMessage(p, DisconnectedReport)
        \/ RuntimeOnMessage(t, DisconnectedReport))
       => ~Has(activeMeetTabs', t)]_vars

\* C13: a "disconnected" report received over a channel of a tab whose
\* session is registered resets hasMeetTab and paints the disconnected badge
\* if that session is the only one registered (isMuted and the registry are
\* kept); with two or more sessions registered the global state, the
\* registry and the badge are unchanged.
C13_DisconnectedReportOnlyLastResets ==
  [][\A p \in 1..Len(ports) :
       (PortOnMessage(p, DisconnectedReport) /\ Has(activeMeetTabs, ports[p].tab)) =>
         IF Len(activeMeetTabs) >= 2
           THEN /\ globalMuteState' = globalMuteState
                /\ badge' = badge
                /\ activeMeetTabs' = activeMeetTabs
           ELSE /\ TabIds(activeMeetTabs) = {ports[p].tab}
                /\ ~globalMuteState'.hasMeetTab
                /\ globalMuteState'.isMuted = IsMuted
                /\ badge' = BadgeDisconnected
                /\ activeMeetTabs' = activeMeetTabs]_vars

\* Two sessions registered and a confirmed "muted" report taken; then
\* "disconnected" arrived from one of them and changed nothing.
C13_Witness ==
  /\ lastEvent.op = "portMessage"
  /\ lastEvent.report = DisconnectedReport
  /\ Len(activeMeetTabs) = 2
  /\ \A p \in 1..Len(ports) : ports[p].state = "open"
  /\ HasMeetTab /\ IsMuted
  /\ badge = BadgeMuted

\* C14: once a toggle sequence has quiesced with a session active, the badge
\* is the one updateAllTabsBadge gives for the global state (muted appearance
\* iff isMuted).  (Violated: the verification callback paints from the
\* persisted preference, after the confirmed report has painted from
\* isMuted.)
C14_QuiescentBadgeShowsAggregate ==
  (Quiesced /\ handled >= 1 /\ HasMeetTab) =>
    badge = UpdateAllTabsBadge(globalMuteState)

\* C15: a call of simpleToggleMute computes requested = ~current from the
\* preference it reads, writes requested to the preference, and only then
\* (the write applied) broadcasts toggleMute carrying requested and sets the
\* verification timer with the delay of its origin; when that timer fires the
\* preference is read as then stored, and the badge is painted from the value
\* read, whatever has been reported meanwhile.
C15_ToggleWritesThenBroadcasts ==
  [][/\ \A i \in 1..Len(calls) :
          /\ StorageGet(i) =>
               /\ calls'[i].newMutedState = ~storage.muted
               /\ calls'[i].pc = "set"
               /\ storage' = storage
          /\ StorageSet(i) =>
               /\ storage'.muted = calls[i].newMutedState
               /\ calls'[i].pc = "cont"
          /\ ToggleContinue(i) =>
               /\ calls[i].pc = "cont"
               /\ lastEvent'.command =
                    [action |-> "toggleMute", muted |-> calls[i].newMutedState]
               /\ timers' = Append(timers,
                    [kind |-> "verify", delay |-> VerificationDelay(calls[i].fromIconClick)])
     /\ (\A i \in 1..Len(calls) : calls[i].pc # "cont") => lastEvent'.op # "toggleContinue"
     /\ lastEvent'.op = "verificationTimer" => checks' = Append(checks, storage.muted)
     /\ lastEvent'.op = "verificationPaint" => badge' = MuteBadge(Head(checks))]_vars

\* A shortcut toggle with no session and no report ever received: the
\* preference was written, the timer fired, and the badge shows the stored
\* value.
C15_Witness ==
  /\ lastEvent.op = "verificationPaint"
  /\ storage.muted = TRUE
  /\ badge = BadgeMuted
  /\ ~HasMeetTab
  /\ ports = <<>>
  /\ calls = <<>> /\ timers = <<>> /\ checks = <<>>

\* C16: a search stops polling when the maximum wait is reached: no poll
\* chain is left running once its timeout has reached MaxTime and its promise
\* is rejected, and at most one chain runs at a time.  (Violated:
\* waitForContainerElement sets its next timer after calling reject as long
\* as the button is missing.)
C16_SearchStopsAtMaxTime ==
  /\ \A k \in 1..Len(pollers) : pollers[k].timeout < MaxTime /\ ~pollers[k].settled
  /\ Len(pollers) <= 1

\* The reconnection timers pending among the content script's timers
ReconnectsPending(ts) == Cardinality({k \in 1..Len(ts) : ts[k].kind = "reconnect"})

\* C17: the content script's onDisconnect clears port and, if the
\* disconnection was forced (lastError), sets one reconnection timer with the
\* fixed delay, and none otherwise; nothing else sets such a timer, so at most
\* one is pending; the timer's attempt consumes it, and an attempt that fails
\* leaves port null with no timer, from where no attempt is ever made again.
C17_OneReconnectPerForcedDisconnect ==
  /\ [](ReconnectsPending(agentTimers) <= 1)
  /\ [][lastEvent'.op = "agentOnDisconnect" =>
          /\ port' = "null"
          /\ agentTimers' =
               IF lastEvent'.lastError
                 THEN Append(agentTimers, [kind |-> "reconnect", delay |-> ReconnectDelay,
                                           quickCheckState |-> FALSE])
                 ELSE agentTimers]_vars
  /\ [][ReconnectsPending(agentTimers') > ReconnectsPending(agentTimers) =>
          lastEvent'.op = "agentOnDisconnect" /\ lastEvent'.lastError]_vars
  /\ [][lastEvent'.op = "reconnect" =>
          /\ ReconnectsPending(agentTimers') = ReconnectsPending(agentTimers) - 1
          /\ port' = (IF lastEvent'.ok THEN "open" ELSE port)]_vars
  /\ [][(port = "null" /\ ReconnectsPending(agentTimers) = 0) =>
          (port' = "null" /\ ReconnectsPending(agentTimers') = 0)]_vars

\* A forced disconnection, then the one attempt, which failed: port is null
\* and no timer is pending.
C17_Witness ==
  /\ lastEvent.op = "reconnect"
  /\ ~lastEvent.ok
  /\ port = "null"
  /\ agentTimers = <<>>
  /\ ~unloaded

\* C18: no toggle request is lost: every storage write of a call of
\* simpleToggleMute flips the preference as stored when the write is applied
\* (so after n completed writes the preference is its initial value flipped n
\* times).  (Violated: a call that read the preference before another call's
\* write writes the value that is already stored.)
C18_EveryWriteFlipsPreference ==
  [][\A i \in 1..Len(calls) : StorageSet(i) => storage'.muted = ~storage.muted]_vars

\* C19: the disconnect notification of a channel that a newer channel of the
\* same tab has replaced in the registry leaves the registry and hasMeetTab
\* as they are.  (Violated: the onDisconnect listener deletes by tab id,
\* whichever channel the registry holds for the tab.)
C19_StaleDisconnectKeepsNewerSession ==
  [][\A p \in 1..Len(ports) :
       (/\ PortOnDisconnect(p)
        /\ \E i \in 1..Len(activeMeetTabs) :
              activeMeetTabs[i].tabId = ports[p].tab /\ activeMeetTabs[i].port > p)
       => /\ activeMeetTabs' = activeMeetTabs
          /\ globalMuteState'.hasMeetTab = HasMeetTab]_vars

\* The step just taken sent a confirmed report
ConfirmedSent ==
  /\ lastEvent.op # "init"
  /\ \E n \in 1..Len(lastEvent.sent) : lastEvent.sent[n].finalState

\* C20: every toggle command handled while the button is in the page is
\* eventually followed by a confirmed report, as long as the page is not
\* unloaded.  (Violated: when the button has left the page by the time of
\* the quick check or of the final check, isMuted() throws in the timer's
\* callback and nothing is reported.)
C20_ToggleEventuallyReported ==
  (lastEvent.op = "handleMessage" /\ button) ~> (ConfirmedSent \/ unloaded)

====
